---- MODULE Spec2Model ----
(***************************************************************************)
(* Model of the koa-router analysed in this repository (lib/router.js) and *)
(* of the reduced re-implementation next to it (mini-router/router.js,     *)
(* mini-router/layer.js).                                                  *)
(*                                                                         *)
(* A behaviour is: construct a router, register layers, mount the router   *)
(* in an application (routes() followed by allowedMethods()), serve one    *)
(* request step by step through koa-compose.                               *)
(*                                                                         *)
(* Paths are sequences of segments: /a/b is the sequence of a and b.  A    *)
(* pattern is a sequence of tokens: a literal segment, a named parameter   *)
(* such as :id, or the wildcard * of path-to-regexp.                       *)
(*                                                                         *)
(* A second specification, SetupSpec, follows the configuration calls on   *)
(* two routers (verbs with names, use with nested routers, prefix, param,  *)
(* route, url).  There the layers live in a heap and a stack holds         *)
(* references, so that one layer object can sit in two stacks.             *)
(*                                                                         *)
(* A third specification, ServeSpec, mounts the dispatch functions of the   *)
(* configured routers in an application and serves two requests whose      *)
(* steps interleave.                                                       *)
(***************************************************************************)
EXTENDS Integers, Sequences, FiniteSets, TLC

VARIABLES
  kind,        \* which implementation was constructed: "lib" or "mini"
  router,      \* the Router object: its methods and its stack of layers
  ctx,         \* the request context of the request being served
  matched,     \* the result of router.match held by the running dispatch
  layerChain,  \* the handler list given to compose by dispatch
  index,       \* koa-compose: position of the handler to run next
  pc,          \* position of the request in the pipeline
  log,         \* the handlers run so far, in order
  nextCalls,   \* how many times dispatch's outer next was invoked
  options,     \* the options allowedMethods was created with
  thrown,      \* the error the pipeline rejected with
  routers,     \* SetupSpec: the Router objects, by identity
  heap,        \* SetupSpec: the Layer objects; a stack holds their positions
  call,        \* SetupSpec: the last call made on a router and its result
  app,         \* ServeSpec: the application, once it listens
  reqs,        \* ServeSpec: the requests, each with its own context
  frames       \* ServeSpec: the local variables of the running dispatch calls

requestVars == <<kind, router, ctx, matched, layerChain, index, pc, log, nextCalls,
                 options, thrown>>

setupVars == <<routers, heap, call>>

serveVars == <<app, reqs, frames>>

vars == <<kind, router, ctx, matched, layerChain, index, pc, log, nextCalls,
          options, thrown, routers, heap, call, app, reqs, frames>>

\* ---------------------------------------------------------------- bounds
MaxStack == 2

\* ------------------------------------------------------- inputs and values
Undefined == "undefined"
NoPath == <<Undefined>>

VerbNames == {"get", "post"}
Patterns == {<<"a">>, <<"a", ":id">>, <<"*">>}
UsePaths == {<<"a">>}
ParamTokens == {":id"}
Middlewares == {<<"f">>, <<"f", "g">>}
MiniVerbNames == {"GET"}
MiniMethodLists == {<<>>, <<"GET", "post">>}
ReqPaths == {<<"a">>, <<"a", "b">>}
ReqMethods == {"GET", "POST", "PUT", "OPTIONS", "TRACE"}
ReqStatus == {0, 404}
\* options || {}: no option given
NoOptions == [throw |-> FALSE, notImplemented |-> Undefined, methodNotAllowed |-> Undefined]

OptionsSet ==
  { NoOptions,
    [throw |-> TRUE, notImplemented |-> Undefined, methodNotAllowed |-> Undefined],
    [throw |-> TRUE, notImplemented |-> "customNotImplemented",
     methodNotAllowed |-> "customMethodNotAllowed"] }

\* ------------------------------------------------------------- sequences
Contains(seq, x) == \E i \in 1..Len(seq) : seq[i] = x

Last(seq) == seq[Len(seq)]

IsPrefixOf(s, t) == Len(s) <= Len(t) /\ SubSeq(t, 1, Len(s)) = s

\* String.prototype.toUpperCase on the verbs that occur
ToUpperCase(s) ==
  CASE s = "get" -> "GET"
    [] s = "post" -> "POST"
    [] OTHER -> s

RECURSIVE MapUpper(_)
MapUpper(seq) ==
  IF seq = <<>> THEN <<>> ELSE <<ToUpperCase(Head(seq))>> \o MapUpper(Tail(seq))

\* Array.prototype.join
RECURSIVE Join(_, _)
Join(seq, sep) ==
  IF seq = <<>> THEN ""
  ELSE IF Len(seq) = 1 THEN seq[1]
  ELSE seq[1] \o sep \o Join(Tail(seq), sep)

\* ------------------------------------------------- path-to-regexp matcher
\* regexp.test(path) for the regexp compiled from `pattern`; end = FALSE
\* compiles a prefix match.
RECURSIVE PathToRegexpTest(_, _, _)
PathToRegexpTest(pattern, end, path) ==
  IF pattern = <<>> THEN (IF end THEN path = <<>> ELSE TRUE)
  ELSE IF Head(pattern) = "*"
    THEN \E k \in 0..Len(path) :
           PathToRegexpTest(Tail(pattern), end, SubSeq(path, k + 1, Len(path)))
  ELSE IF Head(pattern) \in ParamTokens
    THEN path # <<>> /\ PathToRegexpTest(Tail(pattern), end, Tail(path))
  ELSE path # <<>> /\ Head(path) = Head(pattern)
       /\ PathToRegexpTest(Tail(pattern), end, Tail(path))

\* path.match(regexp).slice(1): the capture groups in pattern order (for a
\* path the pattern matches); the wildcard is greedy.
RECURSIVE PathToRegexpExec(_, _, _)
PathToRegexpExec(pattern, end, path) ==
  IF pattern = <<>> THEN <<>>
  ELSE IF Head(pattern) = "*"
    THEN LET ks == {k \in 0..Len(path) :
                      PathToRegexpTest(Tail(pattern), end, SubSeq(path, k + 1, Len(path)))}
             k == CHOOSE x \in ks : \A y \in ks : y <= x
         IN <<SubSeq(path, 1, k)>>
            \o PathToRegexpExec(Tail(pattern), end, SubSeq(path, k + 1, Len(path)))
  ELSE IF Head(pattern) \in ParamTokens
    THEN <<(<<Head(path)>>)>> \o PathToRegexpExec(Tail(pattern), end, Tail(path))
  ELSE PathToRegexpExec(Tail(pattern), end, Tail(path))

\* the keys path-to-regexp reports: one per capture group, named or not
RECURSIVE PathToRegexpKeys(_)
PathToRegexpKeys(pattern) ==
  IF pattern = <<>> THEN <<>>
  ELSE IF Head(pattern) = "*" THEN <<Undefined>> \o PathToRegexpKeys(Tail(pattern))
  ELSE IF Head(pattern) \in ParamTokens
    THEN <<Head(pattern)>> \o PathToRegexpKeys(Tail(pattern))
  ELSE PathToRegexpKeys(Tail(pattern))

\* ------------------------------------------------------------ Layer (lib)
\* new Layer(path, methods, middleware, opts): the method names are stored
\* in upper case, the middleware as the layer's stack.  `id` is the
\* identity of the object.  `prefix` is the prefix setPrefix applied last,
\* `validators` the parameter middleware param attached.
NoParams == [n \in ParamTokens |-> Undefined]

Layer(id, path, methods, middleware, opts) ==
  [ id |-> id,
    path |-> path,
    methods |-> MapUpper(methods),
    stack |-> middleware,
    name |-> opts.name,
    paramNames |-> PathToRegexpKeys(path),
    opts |-> opts,
    prefix |-> <<>>,
    validators |-> NoParams ]

\* layer.match(path)
LayerMatch(layer, path) == PathToRegexpTest(layer.path, layer.opts.end, path)

\* layer.captures(path, priorCaptures)
LayerCaptures(layer, path, priorCaptures) ==
  IF layer.opts.ignoreCaptures THEN priorCaptures
  ELSE PathToRegexpExec(layer.path, layer.opts.end, path)

\* layer.params(path, captures, priorParams): params are a set of
\* <<name, value>> pairs with one pair per name
LayerParams(layer, captures, priorParams) ==
  LET n == IF Len(captures) < Len(layer.paramNames) THEN Len(captures)
           ELSE Len(layer.paramNames)
      fresh == {<<layer.paramNames[i], captures[i]>> :
                  i \in {j \in 1..n : layer.paramNames[j] # Undefined}}
      names == {p[1] : p \in fresh}
  IN {p \in priorParams : p[1] \notin names} \cup fresh

\* ----------------------------------------------------- Layer (mini-router)
\* methods.join(' ').toUpperCase().split(' '): an empty list becomes the
\* list holding the empty string
MiniMethods(methods) == IF methods = <<>> THEN <<"">> ELSE MapUpper(methods)

MiniLayer(id, path, methods, middleware) ==
  [ id |-> id,
    path |-> path,
    methods |-> MiniMethods(methods),
    stack |-> middleware ]

MiniLayerMatch(layer, path) == PathToRegexpTest(layer.path, TRUE, path)

\* ------------------------------------------------------------ Router.match
NoMatch == [path |-> <<>>, pathAndMethod |-> <<>>, route |-> FALSE]

\* MatchLayer with the route flag raised by every layer that matches path
\* and method
MatchLayerRouteAlways(m, layer, path, method) ==
  IF LayerMatch(layer, path)
  THEN IF Len(layer.methods) = 0 \/ Contains(layer.methods, method)
       THEN [ path |-> Append(m.path, layer),
              pathAndMethod |-> Append(m.pathAndMethod, layer),
              route |-> TRUE ]
       ELSE [m EXCEPT !.path = Append(@, layer)]
  ELSE m

\* one turn of the loop of Router.prototype.match
MatchLayer(m, layer, path, method) ==
  IF LayerMatch(layer, path)
  THEN IF Len(layer.methods) = 0 \/ Contains(layer.methods, method)
       THEN [ path |-> Append(m.path, layer),
              pathAndMethod |-> Append(m.pathAndMethod, layer),
              route |-> IF Len(layer.methods) # 0 THEN TRUE ELSE m.route ]
       ELSE [m EXCEPT !.path = Append(@, layer)]
  ELSE m

RECURSIVE MatchLoop(_, _, _, _, _)
MatchLoop(layers, i, path, method, m) ==
  IF i > Len(layers) THEN m
  ELSE MatchLoop(layers, i + 1, path, method, MatchLayer(m, layers[i], path, method))

\* Match reporting a route as soon as a layer matches path and method
MatchRouteOnAnyLayer(layers, path, method) ==
  LET m == MatchLoop(layers, 1, path, method, NoMatch)
  IN [m EXCEPT !.route = (m.pathAndMethod # <<>>)]

\* Match with the loop left as soon as a route is found
RECURSIVE MatchLoopBreak(_, _, _, _, _)
MatchLoopBreak(layers, i, path, method, m) ==
  IF i > Len(layers) \/ m.route THEN m
  ELSE MatchLoopBreak(layers, i + 1, path, method,
                      MatchLayer(m, layers[i], path, method))

MatchStopsAtRoute(layers, path, method) ==
  MatchLoopBreak(layers, 1, path, method, NoMatch)

Match(layers, path, method) == MatchLoop(layers, 1, path, method, NoMatch)

\* one turn of the forEach of the mini-router's match
MiniMatchLayer(m, layer, path, method) ==
  IF MiniLayerMatch(layer, path)
  THEN IF Len(layer.methods) = 0 \/ Contains(layer.methods, method)
       THEN [ path |-> Append(m.path, layer),
              pathAndMethod |-> Append(m.pathAndMethod, layer),
              route |-> (Len(layer.methods) # 0) ]
       ELSE [m EXCEPT !.path = Append(@, layer)]
  ELSE m

RECURSIVE MiniMatchLoop(_, _, _, _, _)
MiniMatchLoop(layers, i, path, method, m) ==
  IF i > Len(layers) THEN m
  ELSE MiniMatchLoop(layers, i + 1, path, method,
                     MiniMatchLayer(m, layers[i], path, method))

MiniMatch(layers, path, method) == MiniMatchLoop(layers, 1, path, method, NoMatch)

\* ------------------------------------------------------------ construction
\* new Router(): the supported methods and an empty stack.  The routers of
\* this model are constructed without options, so opts.prefix is unset and
\* params is empty.
DefaultMethods == <<"HEAD", "OPTIONS", "GET", "PUT", "PATCH", "POST", "DELETE">>

Router == [methods |-> DefaultMethods, stack |-> <<>>]

\* the routers of SetupSpec: a parent and a router to nest in it
RouterIds == {"parent", "child"}

\* new Router(): no prefix, no params, an empty stack
RouterObject == [opts |-> [prefix |-> <<>>], params |-> NoParams, stack |-> <<>>]

\* the values a call returns
Ret(type, id, value) == [type |-> type, id |-> id, value |-> value]

NoCall ==
  [ op |-> "none", on |-> Undefined, name |-> Undefined, paths |-> <<>>,
    mount |-> FALSE, ret |-> Ret("undefined", 0, <<>>),
    pre |-> [routers |-> [r \in RouterIds |-> RouterObject], heap |-> <<>>] ]

\* the context koa hands to the first middleware
NewContext(path, method, status) ==
  [ path |-> path,
    method |-> method,
    status |-> status,
    body |-> Undefined,
    Allow |-> Undefined,
    matched |-> <<>>,
    router |-> Undefined,
    _matchedRoute |-> NoPath,
    _matchedRouteName |-> Undefined,
    captures |-> <<>>,
    params |-> {},
    routerName |-> Undefined ]

\* the requests the application serves, numbered as they arrive
Requests == {1, 2}

\* the application before it listens: no middleware mounted
NoApp ==
  [ chain |-> <<>>,
    conf |-> [routers |-> [r \in RouterIds |-> RouterObject], heap |-> <<>>] ]

\* a request that has not arrived
NoRequest ==
  [ pc |-> "idle", ctx |-> NewContext(<<>>, Undefined, 0), pos |-> 0,
    callsNext |-> FALSE, trace |-> <<>>, log |-> <<>> ]

\* the locals of dispatch before it runs
NoFrame == [matched |-> NoMatch, layerChain |-> <<>>, index |-> 0]

Init ==
  /\ kind \in {"lib", "mini"}
  /\ router = Router
  /\ ctx = NewContext(<<>>, Undefined, 0)
  /\ matched = NoMatch
  /\ layerChain = <<>>
  /\ index = 0
  /\ pc = "setup"
  /\ log = <<>>
  /\ nextCalls = 0
  /\ options = NoOptions
  /\ thrown = Undefined
  /\ routers = [r \in RouterIds |-> RouterObject]
  /\ heap = <<>>
  /\ call = NoCall
  /\ app = NoApp
  /\ reqs = [q \in Requests |-> NoRequest]
  /\ frames = [q \in Requests |-> NoFrame]

\* ------------------------------------------------------------ registration
\* Router.prototype.register for a single path: the stack with the new
\* layer pushed
Register(stack, path, methods, middleware, opts) ==
  Append(stack,
         Layer(Len(stack) + 1, path, methods, middleware,
               [ end |-> IF opts.end = FALSE THEN FALSE ELSE TRUE,
                 name |-> opts.name,
                 ignoreCaptures |-> opts.ignoreCaptures ]))

\* router.get(path, ...middleware), router.post(path, ...middleware)
Verb ==
  /\ pc = "setup" /\ kind = "lib"
  /\ Len(router.stack) < MaxStack
  /\ \E method \in VerbNames, path \in Patterns, middleware \in Middlewares :
       router' = [router EXCEPT !.stack =
                    Register(@, path, <<method>>, middleware,
                             [end |-> TRUE, name |-> Undefined, ignoreCaptures |-> FALSE])]
  /\ UNCHANGED <<kind, ctx, matched, layerChain, index, pc, log, nextCalls,
                 options, thrown>>
  /\ UNCHANGED setupVars
  /\ UNCHANGED serveVars

\* the forEach of Router.prototype.use over plain middleware functions: one
\* method-less layer per function
RECURSIVE UseEach(_, _, _, _)
UseEach(stack, path, hasPath, middleware) ==
  IF middleware = <<>> THEN stack
  ELSE UseEach(Register(stack, IF hasPath THEN path ELSE <<"*">>, <<>>,
                        <<Head(middleware)>>,
                        [end |-> FALSE, name |-> Undefined, ignoreCaptures |-> ~hasPath]),
               path, hasPath, Tail(middleware))

\* router.use(...middleware) and router.use(path, ...middleware)
Use ==
  /\ pc = "setup" /\ kind = "lib"
  /\ \E hasPath \in BOOLEAN, path \in UsePaths, middleware \in Middlewares :
       /\ Len(router.stack) + Len(middleware) <= MaxStack
       /\ router' = [router EXCEPT !.stack = UseEach(@, path, hasPath, middleware)]
  /\ UNCHANGED <<kind, ctx, matched, layerChain, index, pc, log, nextCalls,
                 options, thrown>>
  /\ UNCHANGED setupVars
  /\ UNCHANGED serveVars

\* the mini-router's register for a single path
MiniRegister(stack, path, methods, middleware) ==
  Append(stack, MiniLayer(Len(stack) + 1, path, methods, middleware))

\* the mini-router's verb methods, and register called directly
MiniVerb ==
  /\ pc = "setup" /\ kind = "mini"
  /\ Len(router.stack) < MaxStack
  /\ \E method \in MiniVerbNames, path \in Patterns, middleware \in Middlewares :
       router' = [router EXCEPT !.stack = MiniRegister(@, path, <<method>>, middleware)]
  /\ UNCHANGED <<kind, ctx, matched, layerChain, index, pc, log, nextCalls,
                 options, thrown>>
  /\ UNCHANGED setupVars
  /\ UNCHANGED serveVars

MiniRegisterCall ==
  /\ pc = "setup" /\ kind = "mini"
  /\ Len(router.stack) < MaxStack
  /\ \E methods \in MiniMethodLists, path \in Patterns, middleware \in Middlewares :
       router' = [router EXCEPT !.stack = MiniRegister(@, path, methods, middleware)]
  /\ UNCHANGED <<kind, ctx, matched, layerChain, index, pc, log, nextCalls,
                 options, thrown>>
  /\ UNCHANGED setupVars
  /\ UNCHANGED serveVars

\* ----------------------------------------------------------------- request
\* koa receives a request and calls the first middleware, the dispatch
\* function returned by router.routes()
Request ==
  /\ pc = "setup"
  /\ \E path \in ReqPaths, method \in ReqMethods, status \in ReqStatus :
       /\ kind = "mini" => status = 404
       /\ ctx' = NewContext(path, method, status)
  /\ pc' = "dispatch"
  /\ UNCHANGED <<kind, router, matched, layerChain, index, log, nextCalls,
                 options, thrown>>
  /\ UNCHANGED setupVars
  /\ UNCHANGED serveVars

\* MostSpecificLayer taking the first matched layer
FirstMatchedLayer(matchedLayers) == Head(matchedLayers)

\* the layer dispatch exposes as the matched route
MostSpecificLayer(matchedLayers) == Last(matchedLayers)

\* LayerChain with each binding step behind the middleware of its layer
RECURSIVE LayerChainBindLast(_)
LayerChainBindLast(matchedLayers) ==
  IF matchedLayers = <<>> THEN <<>>
  ELSE LET layer == Head(matchedLayers)
       IN [k \in 1..Len(layer.stack) |-> [layer |-> layer, k |-> k]]
          \o <<[layer |-> layer, k |-> 0]>>
          \o LayerChainBindLast(Tail(matchedLayers))

\* LayerChain with the layers taken from the last to the first
RECURSIVE LayerChainReversed(_)
LayerChainReversed(matchedLayers) ==
  IF matchedLayers = <<>> THEN <<>>
  ELSE LET layer == Last(matchedLayers)
       IN <<[layer |-> layer, k |-> 0]>>
          \o [k \in 1..Len(layer.stack) |-> [layer |-> layer, k |-> k]]
          \o LayerChainReversed(SubSeq(matchedLayers, 1, Len(matchedLayers) - 1))

\* the reduce of dispatch: for each layer a binding step (k = 0), then the
\* layer's middleware (k = 1, 2, ...)
RECURSIVE LayerChain(_)
LayerChain(matchedLayers) ==
  IF matchedLayers = <<>> THEN <<>>
  ELSE LET layer == Head(matchedLayers)
       IN <<[layer |-> layer, k |-> 0]>>
          \o [k \in 1..Len(layer.stack) |-> [layer |-> layer, k |-> k]]
          \o LayerChain(Tail(matchedLayers))

\* PushMatched with the list of the earlier dispatches dropped
ReplaceMatched(prior, path) == path

\* ctx.matched after a dispatch: matched.path itself when the context had no
\* list, the list with matched.path pushed onto it otherwise (the context of
\* this model starts with the empty list)
PushMatched(prior, path) == prior \o path

\* dispatch of lib/router.js, up to the call of the composed chain
Dispatch ==
  /\ pc = "dispatch" /\ kind = "lib"
  /\ LET m == Match(router.stack, ctx.path, ctx.method)
         c1 == [ctx EXCEPT !.matched = PushMatched(@, m.path), !.router = "router"]
     IN /\ matched' = m
        /\ IF ~m.route
           THEN /\ ctx' = c1
                /\ nextCalls' = nextCalls + 1
                /\ pc' = "next"
                /\ UNCHANGED <<layerChain, index>>
           ELSE LET mostSpecificLayer == MostSpecificLayer(m.pathAndMethod)
                IN /\ ctx' = [c1 EXCEPT
                                !._matchedRoute = mostSpecificLayer.path,
                                !._matchedRouteName =
                                   IF mostSpecificLayer.name # Undefined
                                   THEN mostSpecificLayer.name ELSE @]
                   /\ layerChain' = LayerChain(m.pathAndMethod)
                   /\ index' = 1
                   /\ pc' = "compose"
                   /\ UNCHANGED nextCalls
  /\ UNCHANGED <<kind, router, log, options, thrown>>
  /\ UNCHANGED setupVars
  /\ UNCHANGED serveVars

\* the reduce of the mini-router's dispatch: the layers' middleware only
RECURSIVE MiniLayerChain(_)
MiniLayerChain(matchedLayers) ==
  IF matchedLayers = <<>> THEN <<>>
  ELSE LET layer == Head(matchedLayers)
       IN [k \in 1..Len(layer.stack) |-> [layer |-> layer, k |-> k]]
          \o MiniLayerChain(Tail(matchedLayers))

MiniDispatch ==
  /\ pc = "dispatch" /\ kind = "mini"
  /\ LET m == MiniMatch(router.stack, ctx.path, ctx.method)
     IN /\ matched' = m
        /\ IF m.route
           THEN /\ layerChain' = MiniLayerChain(m.pathAndMethod)
                /\ index' = 1
                /\ pc' = "compose"
                /\ UNCHANGED nextCalls
           ELSE /\ nextCalls' = nextCalls + 1
                /\ pc' = "next"
                /\ UNCHANGED <<layerChain, index>>
  /\ UNCHANGED <<kind, router, ctx, log, options, thrown>>
  /\ UNCHANGED setupVars
  /\ UNCHANGED serveVars

\* ------------------------------------------------------------- koa-compose
\* compose(layerChain)(ctx, next) runs the handlers one after the other;
\* each receives a next that runs the following one, the last one receives
\* the outer next

\* the binding step dispatch puts in front of each layer's middleware; it
\* always calls next
BindingStep ==
  /\ pc = "compose" /\ index <= Len(layerChain)
  /\ layerChain[index].k = 0
  /\ LET layer == layerChain[index].layer
         captures == LayerCaptures(layer, ctx.path, ctx.captures)
     IN ctx' = [ctx EXCEPT !.captures = captures,
                           !.params = LayerParams(layer, captures, ctx.params),
                           !.routerName = layer.name]
  /\ log' = Append(log, <<layerChain[index].layer.id, 0>>)
  /\ index' = index + 1
  /\ UNCHANGED <<kind, router, matched, layerChain, pc, nextCalls, options, thrown>>
  /\ UNCHANGED setupVars
  /\ UNCHANGED serveVars

\* AfterHandler going on with the chain whatever the handler did
AfterHandlerGoesOn(calledNext) == "compose"

\* what compose does after a handler returned: run the following handler
\* when the handler called its next, settle otherwise
AfterHandler(calledNext) == IF calledNext THEN "compose" ELSE "done"

\* a middleware function of a layer: it may set the response body, and it
\* calls its next or it does not
Middleware ==
  /\ pc = "compose" /\ index <= Len(layerChain)
  /\ layerChain[index].k > 0
  /\ \E setsBody \in BOOLEAN, callsNext \in BOOLEAN :
       /\ ctx' = IF setsBody
                 THEN [ctx EXCEPT !.body = "body", !.status = 200]
                 ELSE ctx
       /\ pc' = AfterHandler(callsNext)
       /\ index' = IF callsNext THEN index + 1 ELSE index
  /\ log' = Append(log, <<layerChain[index].layer.id, layerChain[index].k>>)
  /\ UNCHANGED <<kind, router, matched, layerChain, nextCalls, options, thrown>>
  /\ UNCHANGED setupVars
  /\ UNCHANGED serveVars

\* OuterNextDue with the outer next also invoked once a chain has settled
\* without reaching its end
OuterNextDueOnSettle(p, i, chain) ==
  \/ p = "compose" /\ i = Len(chain) + 1
  \/ p = "done" /\ chain # <<>> /\ i <= Len(chain) /\ nextCalls = 0

\* the outer next dispatch hands to the composed chain is invoked when the
\* last handler of the chain calls its next
OuterNextDue(p, i, chain) == p = "compose" /\ i = Len(chain) + 1

\* the last handler called its next: compose calls the outer next
ComposeNext ==
  /\ OuterNextDue(pc, index, layerChain)
  /\ nextCalls' = nextCalls + 1
  /\ pc' = "next"
  /\ UNCHANGED <<kind, router, ctx, matched, layerChain, index, log, options, thrown>>
  /\ UNCHANGED setupVars
  /\ UNCHANGED serveVars

\* ---------------------------------------------------------- allowedMethods
\* the keys of the `allowed` object: the methods of the layers of
\* ctx.matched, each once, in the order they are first met
\* AddKeys appending every method, met before or not
AddKeysNoDedupe(keys, methods) == keys \o methods

RECURSIVE AddKeys(_, _)
AddKeys(keys, methods) ==
  IF methods = <<>> THEN keys
  ELSE AddKeys(IF Contains(keys, Head(methods)) THEN keys
               ELSE Append(keys, Head(methods)),
               Tail(methods))

\* AllowedArr reading the methods of the first matched layer only
AllowedArrFirstLayer(layers) ==
  IF layers = <<>> THEN <<>> ELSE AddKeys(<<>>, Head(layers).methods)

RECURSIVE AllowedArr(_)
AllowedArr(layers) ==
  IF layers = <<>> THEN <<>>
  ELSE AddKeys(AllowedArr(SubSeq(layers, 1, Len(layers) - 1)), Last(layers).methods)

\* NotImplementedThrowable ignoring the factory given in the options
NotImplementedThrowableDefault(opt) == "NotImplementedError"

\* the error allowedMethods throws in throw mode
NotImplementedThrowable(opt) ==
  IF opt.notImplemented # Undefined THEN opt.notImplemented
  ELSE "NotImplementedError"

MethodNotAllowedThrowable(opt) ==
  IF opt.methodNotAllowed # Undefined THEN opt.methodNotAllowed
  ELSE "MethodNotAllowedError"

\* AllowedMethodsThen without the test of allowedArr.length
AllowedMethodsThenNoLengthTest(c, implemented, opt) ==
  LET allowedArr == AllowedArr(c.matched)
      allow == Join(allowedArr, ", ")
      same == [ctx |-> c, thrown |-> Undefined]
  IN IF ~(c.status = 0 \/ c.status = 404) THEN same
     ELSE IF ~Contains(implemented, c.method)
       THEN IF opt.throw
            THEN [ctx |-> c, thrown |-> NotImplementedThrowable(opt)]
            ELSE [ctx |-> [c EXCEPT !.status = 501, !.Allow = allow],
                  thrown |-> Undefined]
     ELSE IF c.method = "OPTIONS"
       THEN [ctx |-> [c EXCEPT !.status = 200, !.body = "", !.Allow = allow],
             thrown |-> Undefined]
     ELSE IF ~Contains(allowedArr, c.method)
       THEN IF opt.throw
            THEN [ctx |-> c, thrown |-> MethodNotAllowedThrowable(opt)]
            ELSE [ctx |-> [c EXCEPT !.status = 405, !.Allow = allow],
                  thrown |-> Undefined]
     ELSE same

\* AllowedMethodsThen with the test of the implemented methods behind the
\* OPTIONS and 405 branches
AllowedMethodsThenImplementedLast(c, implemented, opt) ==
  LET allowedArr == AllowedArr(c.matched)
      allow == Join(allowedArr, ", ")
      same == [ctx |-> c, thrown |-> Undefined]
  IN IF ~(c.status = 0 \/ c.status = 404) THEN same
     ELSE IF Len(allowedArr) # 0 /\ c.method = "OPTIONS"
       THEN [ctx |-> [c EXCEPT !.status = 200, !.body = "", !.Allow = allow],
             thrown |-> Undefined]
     ELSE IF Len(allowedArr) # 0 /\ ~Contains(allowedArr, c.method)
       THEN IF opt.throw
            THEN [ctx |-> c, thrown |-> MethodNotAllowedThrowable(opt)]
            ELSE [ctx |-> [c EXCEPT !.status = 405, !.Allow = allow],
                  thrown |-> Undefined]
     ELSE IF ~Contains(implemented, c.method)
       THEN IF opt.throw
            THEN [ctx |-> c, thrown |-> NotImplementedThrowable(opt)]
            ELSE [ctx |-> [c EXCEPT !.status = 501, !.Allow = allow],
                  thrown |-> Undefined]
     ELSE same

\* AllowedMethodsThen without the test of the status downstream left
AllowedMethodsThenNoStatusTest(c, implemented, opt) ==
  LET allowedArr == AllowedArr(c.matched)
      allow == Join(allowedArr, ", ")
      same == [ctx |-> c, thrown |-> Undefined]
  IN IF ~Contains(implemented, c.method)
       THEN IF opt.throw
            THEN [ctx |-> c, thrown |-> NotImplementedThrowable(opt)]
            ELSE [ctx |-> [c EXCEPT !.status = 501, !.Allow = allow],
                  thrown |-> Undefined]
     ELSE IF Len(allowedArr) # 0
       THEN IF c.method = "OPTIONS"
            THEN [ctx |-> [c EXCEPT !.status = 200, !.body = "", !.Allow = allow],
                  thrown |-> Undefined]
            ELSE IF ~Contains(allowedArr, c.method)
              THEN IF opt.throw
                   THEN [ctx |-> c, thrown |-> MethodNotAllowedThrowable(opt)]
                   ELSE [ctx |-> [c EXCEPT !.status = 405, !.Allow = allow],
                         thrown |-> Undefined]
            ELSE same
     ELSE same

\* the callback allowedMethods runs once next() has resolved: the context
\* and the error it leaves
AllowedMethodsThen(c, implemented, opt) ==
  LET allowedArr == AllowedArr(c.matched)
      allow == Join(allowedArr, ", ")
      same == [ctx |-> c, thrown |-> Undefined]
  IN IF ~(c.status = 0 \/ c.status = 404) THEN same
     ELSE IF ~Contains(implemented, c.method)
       THEN IF opt.throw
            THEN [ctx |-> c, thrown |-> NotImplementedThrowable(opt)]
            ELSE [ctx |-> [c EXCEPT !.status = 501, !.Allow = allow],
                  thrown |-> Undefined]
     ELSE IF Len(allowedArr) # 0
       THEN IF c.method = "OPTIONS"
            THEN [ctx |-> [c EXCEPT !.status = 200, !.body = "", !.Allow = allow],
                  thrown |-> Undefined]
            ELSE IF ~Contains(allowedArr, c.method)
              THEN IF opt.throw
                   THEN [ctx |-> c, thrown |-> MethodNotAllowedThrowable(opt)]
                   ELSE [ctx |-> [c EXCEPT !.status = 405, !.Allow = allow],
                         thrown |-> Undefined]
            ELSE same
     ELSE same

\* what the middleware mounted after allowedMethods does when allowedMethods
\* calls its next: it resolves leaving the response alone, it resolves having
\* responded, or it fails
DownstreamOutcomes == {"resolves", "responds", "fails"}

\* the middleware router.allowedMethods(options) mounted after
\* router.routes(): it is the outer next of dispatch.  Called, it calls its
\* own next and returns the promise next().then(callback)
AllowedMethods ==
  /\ pc = "next" /\ kind = "lib"
  /\ pc' = "downstream"
  /\ UNCHANGED <<kind, router, ctx, matched, layerChain, index, log, nextCalls,
                 options, thrown>>
  /\ UNCHANGED setupVars
  /\ UNCHANGED serveVars

\* ThenOnFulfilled with the callback run on rejection too
ThenAlways(outcome) == "then"

\* promise.then(callback): the callback runs once the promise is fulfilled;
\* a rejection passes the callback by and settles the returned promise
ThenOnFulfilled(outcome) == IF outcome = "fails" THEN "done" ELSE "then"

\* the rest of the application's chain, run by the next() of allowedMethods
Downstream ==
  /\ pc = "downstream"
  /\ \E outcome \in DownstreamOutcomes :
       /\ ctx' = IF outcome = "responds"
                 THEN [ctx EXCEPT !.body = "body", !.status = 200]
                 ELSE ctx
       /\ thrown' = IF outcome = "fails" THEN "DownstreamError" ELSE thrown
       /\ pc' = ThenOnFulfilled(outcome)
  /\ UNCHANGED <<kind, router, matched, layerChain, index, log, nextCalls, options>>
  /\ UNCHANGED setupVars
  /\ UNCHANGED serveVars

\* next() has resolved: the callback of allowedMethods runs, for the options
\* the middleware was created with
AllowedMethodsCallback ==
  /\ pc = "then"
  /\ \E opt \in OptionsSet :
       LET r == AllowedMethodsThen(ctx, router.methods, opt)
       IN /\ options' = opt
          /\ ctx' = r.ctx
          /\ thrown' = IF r.thrown # Undefined THEN r.thrown ELSE thrown
  /\ pc' = "done"
  /\ UNCHANGED <<kind, router, matched, layerChain, index, log, nextCalls>>
  /\ UNCHANGED setupVars
  /\ UNCHANGED serveVars

\* the mini-router's dispatch is the only middleware of its application:
\* its outer next is the end of the chain
MiniEnd ==
  /\ pc = "next" /\ kind = "mini"
  /\ pc' = "done"
  /\ UNCHANGED <<kind, router, ctx, matched, layerChain, index, log, nextCalls,
                 options, thrown>>
  /\ UNCHANGED setupVars
  /\ UNCHANGED serveVars

Next ==
  \/ Verb
  \/ Use
  \/ MiniVerb
  \/ MiniRegisterCall
  \/ Request
  \/ Dispatch
  \/ MiniDispatch
  \/ BindingStep
  \/ Middleware
  \/ ComposeNext
  \/ AllowedMethods
  \/ Downstream
  \/ AllowedMethodsCallback
  \/ MiniEnd

Spec == Init /\ [][Next]_vars

\* ================================================== configuration (SetupSpec)
Names == {"user"}
LookupNames == {"user", "test"}
RoutePaths == {<<":id">>}
\* a prefix ending in the empty segment is a prefix written with a trailing /
Prefixes == {<<"api">>, <<"api", "">>}
\* the path argument of a mount: none, a path, an array of paths
MountArgs == {<<>>, <<(<<"m">>)>>, <<(<<"m">>), (<<"n">>)>>}
Validators == {"v"}
UrlValues == {"7"}

\* the verbs of the `methods` package that occur here
HttpMethods == <<"get", "post">>
\* an array of paths given to register
PathLists == {<<(<<":id">>), (<<"a">>)>>}
\* the requests a configured router is asked to match and to dispatch
SetupReqPaths == {<<"7">>}
SetupReqMethods == {"GET"}
\* the calls that read the configuration
Lookups == {"route", "url", "match", "dispatch"}

\* no layer path grows beyond this many segments
MaxPath == 3

\* at most this many layers are constructed
MaxLayers == 2

\* ------------------------------------------------- Layer: setPrefix, param
\* LayerSetPrefix prepending whatever was applied before
LayerSetPrefixPrepend(layer, prefix) ==
  [layer EXCEPT !.path = prefix \o @,
                !.paramNames = PathToRegexpKeys(prefix \o layer.path),
                !.prefix = prefix]

\* layer.setPrefix(prefix): the matcher is recompiled with the prefix
\* prepended; applying the prefix applied last once more changes nothing
LayerSetPrefix(layer, prefix) ==
  IF prefix = <<>> \/ layer.prefix = prefix THEN layer
  ELSE [layer EXCEPT !.path = prefix \o @,
                     !.paramNames = PathToRegexpKeys(prefix \o layer.path),
                     !.prefix = prefix]

\* layer.param(param, fn): a no-op on a layer without that parameter name
LayerParam(layer, param, fn) ==
  IF Contains(layer.paramNames, param)
  THEN [layer EXCEPT !.validators[param] = fn]
  ELSE layer

\* layer.url(value): the path with the value in place of the parameters
LayerUrl(layer, value) ==
  [i \in 1..Len(layer.path) |->
     IF layer.path[i] \in ParamTokens THEN value ELSE layer.path[i]]

\* ------------------------------------------------------------ Router calls
\* the configuration: the routers and the heap of layers
Conf(rs, h) == [routers |-> rs, heap |-> h]

\* Object.keys(params)
Keys(params) == {n \in ParamTokens : params[n] # Undefined}

\* route.param(key, params[key]) for each key of params
RECURSIVE LayerParamEach(_, _, _)
LayerParamEach(layer, params, keys) ==
  IF keys = {} THEN layer
  ELSE LET key == CHOOSE k \in keys : TRUE
       IN LayerParamEach(LayerParam(layer, key, params[key]), params, keys \ {key})

\* RegisterOn with the new layer put in front of the stack
RegisterOnUnshift(c, r, path, methods, middleware, opts) ==
  LET this == c.routers[r]
      route == Layer(Len(c.heap) + 1, path, methods, middleware,
                     [ end |-> IF opts.end = FALSE THEN FALSE ELSE TRUE,
                       name |-> opts.name,
                       ignoreCaptures |-> opts.ignoreCaptures ])
      prefixed == IF this.opts.prefix # <<>>
                  THEN LayerSetPrefix(route, this.opts.prefix) ELSE route
      route2 == LayerParamEach(prefixed, this.params, Keys(this.params))
  IN Conf([c.routers EXCEPT ![r].stack = <<Len(c.heap) + 1>> \o @],
          Append(c.heap, route2))

\* Router.prototype.register for a single path, on router r
RegisterOn(c, r, path, methods, middleware, opts) ==
  LET this == c.routers[r]
      route == Layer(Len(c.heap) + 1, path, methods, middleware,
                     [ end |-> IF opts.end = FALSE THEN FALSE ELSE TRUE,
                       name |-> opts.name,
                       ignoreCaptures |-> opts.ignoreCaptures ])
      prefixed == IF this.opts.prefix # <<>>
                  THEN LayerSetPrefix(route, this.opts.prefix) ELSE route
      route2 == LayerParamEach(prefixed, this.params, Keys(this.params))
  IN Conf([c.routers EXCEPT ![r].stack = Append(@, Len(c.heap) + 1)],
          Append(c.heap, route2))

\* Router.prototype.register with an array of paths: register is called once
\* per path, in the order of the array
RECURSIVE RegisterEachOn(_, _, _, _, _, _)
RegisterEachOn(c, r, paths, methods, middleware, opts) ==
  IF paths = <<>> THEN c
  ELSE RegisterEachOn(RegisterOn(c, r, Head(paths), methods, middleware, opts),
                      r, Tail(paths), methods, middleware, opts)

\* stack.forEach(route => route.setPrefix(prefix)) on the layers `ids` refer to
RECURSIVE SetPrefixEach(_, _, _)
SetPrefixEach(h, ids, prefix) ==
  IF ids = <<>> THEN h
  ELSE SetPrefixEach([h EXCEPT ![Head(ids)] = LayerSetPrefix(@, prefix)],
                     Tail(ids), prefix)

\* prefix.replace(/\/$/, '')
StripTrailingSlash(prefix) ==
  IF prefix # <<>> /\ Last(prefix) = ""
  THEN SubSeq(prefix, 1, Len(prefix) - 1) ELSE prefix

\* PrefixOn leaving the layers registered so far alone
PrefixOnOptsOnly(c, r, prefix) ==
  Conf([c.routers EXCEPT ![r].opts.prefix = StripTrailingSlash(prefix)], c.heap)

\* Router.prototype.prefix on router r
PrefixOn(c, r, prefix) ==
  LET p == StripTrailingSlash(prefix)
  IN Conf([c.routers EXCEPT ![r].opts.prefix = p],
          SetPrefixEach(c.heap, c.routers[r].stack, p))

\* stack.forEach(route => route.param(param, fn)) on the layers `ids` refer to
RECURSIVE ParamEach(_, _, _, _)
ParamEach(h, ids, param, fn) ==
  IF ids = <<>> THEN h
  ELSE ParamEach([h EXCEPT ![Head(ids)] = LayerParam(@, param, fn)],
                 Tail(ids), param, fn)

\* Router.prototype.param on router r
ParamOn(c, r, param, fn) ==
  Conf([c.routers EXCEPT ![r].params[param] = fn],
       ParamEach(c.heap, c.routers[r].stack, param, fn))

\* the forEach of use over the stack of a nested router: each layer object
\* of the nested router is prefixed in place and pushed onto the stack of r
RECURSIVE MountEach(_, _, _, _)
MountEach(c, r, path, ids) ==
  IF ids = <<>> THEN c
  ELSE LET id == Head(ids)
           h1 == IF path # <<>>
                 THEN [c.heap EXCEPT ![id] = LayerSetPrefix(@, path)] ELSE c.heap
           h2 == IF c.routers[r].opts.prefix # <<>>
                 THEN [h1 EXCEPT ![id] = LayerSetPrefix(@, c.routers[r].opts.prefix)]
                 ELSE h1
       IN MountEach(Conf([c.routers EXCEPT ![r].stack = Append(@, id)], h2),
                    r, path, Tail(ids))

\* UseParams applying nothing
UseParamsNone(c, r, nested, keys) == c

\* Object.keys(router.params).forEach(key => m.router.param(key, ...)): the
\* params of r are given to the nested router
RECURSIVE UseParams(_, _, _, _)
UseParams(c, r, nested, keys) ==
  IF keys = {} THEN c
  ELSE LET key == CHOOSE k \in keys : TRUE
       IN UseParams(ParamOn(c, nested, key, c.routers[r].params[key]),
                    r, nested, keys \ {key})

\* the arguments of use behind the path: a function, or the dispatch
\* function of the child router, whose router property is the child
Fn(f) == [fn |-> f, router |-> Undefined]
RoutesOf(r) == [fn |-> "dispatch", router |-> r]

\* middleware.forEach of use, for one path (<<>> when no path was given)
RECURSIVE UseEachOn(_, _, _, _, _)
UseEachOn(c, r, path, hasPath, middleware) ==
  IF middleware = <<>> THEN c
  ELSE LET m == Head(middleware)
           c1 == IF m.router # Undefined
                 THEN LET mounted == MountEach(c, r, path, c.routers[m.router].stack)
                      IN UseParams(mounted, r, m.router, Keys(mounted.routers[r].params))
                 ELSE RegisterOn(c, r, IF path # <<>> THEN path ELSE <<"*">>, <<>>,
                                 <<m.fn>>,
                                 [end |-> FALSE, name |-> Undefined,
                                  ignoreCaptures |-> ~hasPath])
       IN UseEachOn(c1, r, path, hasPath, Tail(middleware))

\* Router.prototype.use on router r: with an array of paths, use is called
\* once per path
RECURSIVE UseOn(_, _, _, _, _)
UseOn(c, r, paths, isArray, middleware) ==
  IF isArray
  THEN IF paths = <<>> THEN c
       ELSE UseOn(UseOn(c, r, <<Head(paths)>>, FALSE, middleware),
                  r, Tail(paths), TRUE, middleware)
  ELSE UseEachOn(c, r, IF paths = <<>> THEN <<>> ELSE paths[1], paths # <<>>,
                 middleware)

\* RouteOn returning the last layer of that name
RouteOnLast(c, r, name) ==
  LET routes == c.routers[r].stack
      found == {i \in 1..Len(routes) :
                  c.heap[routes[i]].name # Undefined /\ c.heap[routes[i]].name = name}
  IN IF found = {} THEN Ret("false", 0, <<>>)
     ELSE Ret("layer", routes[CHOOSE i \in found : \A j \in found : j <= i], <<>>)

\* Router.prototype.route on router r: the loop returns at the first layer
\* with a name that equals `name`
RouteOn(c, r, name) ==
  LET routes == c.routers[r].stack
      found == {i \in 1..Len(routes) :
                  c.heap[routes[i]].name # Undefined /\ c.heap[routes[i]].name = name}
  IN IF found = {} THEN Ret("false", 0, <<>>)
     ELSE Ret("layer", routes[CHOOSE i \in found : \A j \in found : i <= j], <<>>)

\* Router.prototype.url on router r
UrlOn(c, r, name, value) ==
  LET route == RouteOn(c, r, name)
  IN IF route.type = "layer"
     THEN Ret("string", 0, LayerUrl(c.heap[route.id], value))
     ELSE Ret("error", 0, <<"No route found for name: ", name>>)

\* the layers the stack of router r refers to, in stack order
LayersOf(c, r) ==
  [i \in 1..Len(c.routers[r].stack) |-> c.heap[c.routers[r].stack[i]]]

\* Router.prototype.match on router r
MatchOn(c, r, path, method) == Match(LayersOf(c, r), path, method)

\* dispatch of router r called with `context`: the context it leaves, its
\* locals, and whether it returned next() for want of a route
DispatchOn(c, r, context) ==
  LET m == MatchOn(c, r, context.path, context.method)
      c1 == [context EXCEPT !.matched = PushMatched(@, m.path), !.router = r]
  IN IF ~m.route
     THEN [ctx |-> c1, matched |-> m, layerChain |-> <<>>, index |-> 0, next |-> TRUE]
     ELSE LET mostSpecificLayer == MostSpecificLayer(m.pathAndMethod)
          IN [ ctx |-> [c1 EXCEPT
                          !._matchedRoute = mostSpecificLayer.path,
                          !._matchedRouteName =
                             IF mostSpecificLayer.name # Undefined
                             THEN mostSpecificLayer.name ELSE @],
               matched |-> m,
               layerChain |-> LayerChain(m.pathAndMethod),
               index |-> 1,
               next |-> FALSE ]

\* ------------------------------------------------------------------ actions
Here == Conf(routers, heap)

\* the bounds of the model: stack lengths and path lengths
WithinBounds(c) ==
  /\ Len(c.heap) <= MaxLayers
  /\ \A r \in RouterIds : Len(c.routers[r].stack) <= MaxStack
  /\ \A i \in 1..Len(c.heap) : Len(c.heap[i].path) <= MaxPath

\* a call on a router: the configuration it leaves and the value it returns.
\* The application configures its routers first; a behaviour ends with the
\* call that reads the configuration.
Called(c, op, r, name, paths, mount, ret) ==
  /\ call.op \notin Lookups
  /\ WithinBounds(c)
  /\ routers' = c.routers
  /\ heap' = c.heap
  /\ call' = [ op |-> op, on |-> r, name |-> name, paths |-> paths,
               mount |-> mount, ret |-> ret, pre |-> Here ]
  /\ UNCHANGED requestVars
  /\ UNCHANGED serveVars

SetupInit ==
  /\ kind = "lib"
  /\ router = Router
  /\ ctx = NewContext(<<>>, Undefined, 0)
  /\ matched = NoMatch
  /\ layerChain = <<>>
  /\ index = 0
  /\ pc = "setup"
  /\ log = <<>>
  /\ nextCalls = 0
  /\ options = NoOptions
  /\ thrown = Undefined
  /\ routers = [r \in RouterIds |-> RouterObject]
  /\ heap = <<>>
  /\ call = NoCall
  /\ app = NoApp
  /\ reqs = [q \in Requests |-> NoRequest]
  /\ frames = [q \in Requests |-> NoFrame]

\* router.get(path, f) on either router
SetupVerb ==
  \E r \in RouterIds, path \in RoutePaths :
    Called(RegisterOn(Here, r, path, <<"get">>, <<"f">>,
                      [end |-> TRUE, name |-> Undefined, ignoreCaptures |-> FALSE]),
           "get", r, Undefined, <<path>>, FALSE, Ret("this", 0, <<>>))

\* parent.get(name, path, f)
NamedVerb ==
  \E name \in Names, path \in RoutePaths :
    Called(RegisterOn(Here, "parent", path, <<"get">>, <<"f">>,
                      [end |-> TRUE, name |-> name, ignoreCaptures |-> FALSE]),
           "get", "parent", name, <<path>>, FALSE, Ret("this", 0, <<>>))

\* parent.register([path, path], ['get'], f)
RegisterPaths ==
  \E paths \in PathLists :
    Called(RegisterEachOn(Here, "parent", paths, <<"get">>, <<"f">>,
                          [end |-> TRUE, name |-> Undefined, ignoreCaptures |-> FALSE]),
           "register", "parent", Undefined, paths, FALSE, Ret("this", 0, <<>>))

\* parent.all(path, f)
All ==
  \E path \in RoutePaths :
    Called(RegisterOn(Here, "parent", path, HttpMethods, <<"f">>,
                      [end |-> TRUE, name |-> Undefined, ignoreCaptures |-> FALSE]),
           "all", "parent", Undefined, <<path>>, FALSE, Ret("this", 0, <<>>))

\* parent.use(f)
UseFunction ==
  Called(UseOn(Here, "parent", <<>>, FALSE, <<Fn("f")>>),
         "use", "parent", Undefined, <<>>, FALSE, Ret("this", 0, <<>>))

\* parent.use(child.routes()), parent.use(path, child.routes()),
\* parent.use([path, path], child.routes())
UseRouter ==
  \E paths \in MountArgs :
    /\ routers["child"].stack # <<>>
    /\ Called(UseOn(Here, "parent", paths, Len(paths) > 1, <<RoutesOf("child")>>),
              "use", "parent", Undefined, paths, TRUE, Ret("this", 0, <<>>))

\* router.prefix(prefix)
Prefix ==
  \E r \in RouterIds, prefix \in Prefixes :
    Called(PrefixOn(Here, r, prefix),
           "prefix", r, Undefined, <<prefix>>, FALSE, Ret("this", 0, <<>>))

\* router.param(param, fn)
Param ==
  \E r \in RouterIds, param \in ParamTokens, fn \in Validators :
    Called(ParamOn(Here, r, param, fn),
           "param", r, param, <<>>, FALSE, Ret("this", 0, <<>>))

\* router.route(name)
Route ==
  \E name \in LookupNames :
    Called(Here, "route", "parent", name, <<>>, FALSE, RouteOn(Here, "parent", name))

\* router.url(name, value)
Url ==
  \E name \in LookupNames, value \in UrlValues :
    Called(Here, "url", "parent", name, <<>>, FALSE,
           UrlOn(Here, "parent", name, value))

\* parent.match(path, method)
SetupMatch ==
  \E path \in SetupReqPaths, method \in SetupReqMethods :
    Called(Here, "match", "parent", Undefined, <<path>>, FALSE,
           Ret("matched", 0, MatchOn(Here, "parent", path, method)))

\* parent.routes()(ctx, next) on a new context, up to the call of the
\* composed chain
SetupDispatch ==
  \E r \in {"parent"}, path \in SetupReqPaths, method \in SetupReqMethods :
    LET d == DispatchOn(Here, r, NewContext(path, method, 404))
    IN /\ call.op \notin Lookups
       /\ matched' = d.matched
       /\ ctx' = d.ctx
       /\ layerChain' = d.layerChain
       /\ index' = d.index
       /\ nextCalls' = IF d.next THEN nextCalls + 1 ELSE nextCalls
       /\ pc' = IF d.next THEN "next" ELSE "compose"
       /\ call' = [ op |-> "dispatch", on |-> r, name |-> Undefined,
                    paths |-> <<path>>, mount |-> FALSE,
                    ret |-> Ret("promise", 0, <<>>), pre |-> Here ]
       /\ UNCHANGED <<routers, heap>>
       /\ UNCHANGED <<kind, router, log, options, thrown>>
       /\ UNCHANGED serveVars

SetupNext ==
  \/ SetupVerb
  \/ NamedVerb
  \/ RegisterPaths
  \/ All
  \/ UseFunction
  \/ UseRouter
  \/ Prefix
  \/ Param
  \/ Route
  \/ Url
  \/ SetupMatch
  \/ SetupDispatch

SetupSpec == SetupInit /\ [][SetupNext]_vars

\* ======================================================= serving (ServeSpec)
\* the chains of middleware an application mounts: app.use(router.routes())
\* once or twice, of the same router or of two
Apps == {<<"parent">>, <<"parent", "child">>, <<"parent", "parent">>}
\* the requests that arrive: path, method, and whether the handlers that run
\* for the request call their next
ServeRequests ==
  { [path |-> <<"7">>, method |-> "GET", callsNext |-> TRUE],
    [path |-> <<"7">>, method |-> "GET", callsNext |-> FALSE],
    [path |-> <<"8">>, method |-> "POST", callsNext |-> TRUE] }

\* the binding step dispatch puts in front of the middleware of `layer`
Bind(layer, context) ==
  LET captures == LayerCaptures(layer, context.path, context.captures)
  IN [context EXCEPT !.captures = captures,
                     !.params = LayerParams(layer, captures, context.params),
                     !.routerName = layer.name]

\* Frame with one set of locals for all calls of dispatch
FrameShared(q) == 1

\* matched, layerChain and the index of compose are declared inside dispatch
\* and inside the composed function: each call has its own
Frame(q) == q

Listening == app.chain # <<>>

\* a configuration call: the routers and layers it leaves
Configured(c) ==
  /\ ~Listening
  /\ WithinBounds(c)
  /\ routers' = c.routers
  /\ heap' = c.heap
  /\ UNCHANGED call
  /\ UNCHANGED requestVars
  /\ UNCHANGED serveVars

ServeInit == SetupInit

\* parent.get(path, f), parent.post(path, f), child.get(path, f)
ServeVerb ==
  \E r \in RouterIds, verb \in VerbNames, path \in RoutePaths :
    /\ r = "child" => verb = "get"
    /\ Configured(RegisterOn(Here, r, path, <<verb>>, <<"f">>,
                             [end |-> TRUE, name |-> Undefined, ignoreCaptures |-> FALSE]))

\* parent.use(f)
ServeUse == Configured(UseOn(Here, "parent", <<>>, FALSE, <<Fn("f")>>))

\* app.use(router.routes()) for each router of the chain, then app.listen():
\* from here on no router is configured
Listen ==
  /\ ~Listening
  /\ \E chain \in Apps : app' = [chain |-> chain, conf |-> Here]
  /\ UNCHANGED <<reqs, frames>>
  /\ UNCHANGED setupVars
  /\ UNCHANGED requestVars

\* koa creates the context of request q and calls the first middleware
Receive(q) ==
  /\ Listening
  /\ reqs[q].pc = "idle"
  /\ q > 1 => reqs[q - 1].pc # "idle"
  /\ \E request \in ServeRequests :
       reqs' = [reqs EXCEPT ![q] =
                  [ pc |-> "dispatch",
                    ctx |-> NewContext(request.path, request.method, 404),
                    pos |-> 1, callsNext |-> request.callsNext, trace |-> <<>>,
                    log |-> <<>> ]]
  /\ UNCHANGED <<app, frames>>
  /\ UNCHANGED setupVars
  /\ UNCHANGED requestVars

\* next() called by the middleware at position pos of the application: the
\* following middleware runs, or the chain of the application ends
Onward(req) ==
  IF req.pos + 1 > Len(app.chain) THEN [req EXCEPT !.pc = "done"]
  ELSE [req EXCEPT !.pc = "dispatch", !.pos = @ + 1]

\* the dispatch function the application holds at the position of request q
ServeDispatch(q) ==
  /\ reqs[q].pc = "dispatch"
  /\ LET r == app.chain[reqs[q].pos]
         d == DispatchOn(Here, r, reqs[q].ctx)
         req == [reqs[q] EXCEPT !.ctx = d.ctx, !.trace = Append(@, r)]
     IN /\ frames' = [frames EXCEPT ![Frame(q)] =
                        [ matched |-> d.matched, layerChain |-> d.layerChain,
                          index |-> d.index ]]
        /\ reqs' = [reqs EXCEPT ![q] =
                      IF d.next THEN Onward(req) ELSE [req EXCEPT !.pc = "compose"]]
  /\ UNCHANGED app
  /\ UNCHANGED setupVars
  /\ UNCHANGED requestVars

\* the binding step of a layer of the chain of request q
ServeBinding(q) ==
  /\ reqs[q].pc = "compose"
  /\ LET f == frames[Frame(q)]
     IN /\ f.index \in 1..Len(f.layerChain)
        /\ f.layerChain[f.index].k = 0
        /\ reqs' = [reqs EXCEPT
                      ![q].ctx = Bind(f.layerChain[f.index].layer, @),
                      ![q].log = Append(@, <<f.layerChain[f.index].layer.id, 0>>)]
        /\ frames' = [frames EXCEPT ![Frame(q)].index = @ + 1]
  /\ UNCHANGED app
  /\ UNCHANGED setupVars
  /\ UNCHANGED requestVars

\* a middleware of a layer of the chain of request q: it calls its next or
\* it does not
ServeMiddleware(q) ==
  /\ reqs[q].pc = "compose"
  /\ LET f == frames[Frame(q)]
     IN /\ f.index \in 1..Len(f.layerChain)
        /\ f.layerChain[f.index].k > 0
        /\ reqs' = [reqs EXCEPT
                      ![q].log = Append(@, <<f.layerChain[f.index].layer.id,
                                             f.layerChain[f.index].k>>),
                      ![q].pc = AfterHandler(reqs[q].callsNext)]
        /\ frames' = [frames EXCEPT ![Frame(q)].index =
                                      IF reqs[q].callsNext THEN @ + 1 ELSE @]
  /\ UNCHANGED app
  /\ UNCHANGED setupVars
  /\ UNCHANGED requestVars

\* the last handler of the chain of request q called its next: the outer
\* next of dispatch
ServeNext(q) ==
  /\ reqs[q].pc = "compose"
  /\ frames[Frame(q)].index = Len(frames[Frame(q)].layerChain) + 1
  /\ reqs' = [reqs EXCEPT ![q] = Onward(@)]
  /\ UNCHANGED <<app, frames>>
  /\ UNCHANGED setupVars
  /\ UNCHANGED requestVars

ServeNextStep ==
  \/ ServeVerb
  \/ ServeUse
  \/ Listen
  \/ \E q \in Requests : Receive(q)
  \/ \E q \in Requests : ServeDispatch(q)
  \/ \E q \in Requests : ServeBinding(q)
  \/ \E q \in Requests : ServeMiddleware(q)
  \/ \E q \in Requests : ServeNext(q)

ServeSpec == ServeInit /\ [][ServeNextStep]_vars

\* ================================================================= claims
Dispatched == pc \in {"compose", "next", "done"}

Range(seq) == {seq[i] : i \in 1..Len(seq)}

\* the pattern of the layer matches the path of the request
PatternMatches(layer) ==
  IF kind = "lib" THEN LayerMatch(layer, ctx.path) ELSE MiniLayerMatch(layer, ctx.path)

\* the method set of the layer is empty or holds the method of the request
MethodCompatible(layer) == layer.methods = <<>> \/ ctx.method \in Range(layer.methods)

\* positions of the stack whose layer matches the path, and path and method
PathIdx == {i \in 1..Len(router.stack) : PatternMatches(router.stack[i])}

PathAndMethodIdx == {i \in PathIdx : MethodCompatible(router.stack[i])}

\* the layers at the positions of `idx`, in stack order
RECURSIVE Pick(_, _)
Pick(layers, idx) ==
  IF layers = <<>> THEN <<>>
  ELSE Pick(SubSeq(layers, 1, Len(layers) - 1), idx)
       \o (IF Len(layers) \in idx THEN <<Last(layers)>> ELSE <<>>)

\* C1: match returns as pathMatched exactly the layers whose pattern matches
\* the path, in stack order, and as pathAndMethodMatched exactly those of
\* them whose method set is empty or holds the method; the scan goes over
\* the whole stack
C1_MatchCollectsAll ==
  Dispatched =>
    LET p == PathIdx
        pm == {i \in p : MethodCompatible(router.stack[i])}
    IN /\ matched.path = Pick(router.stack, p)
       /\ matched.pathAndMethod = Pick(router.stack, pm)

\* a layer behind the first matching route is collected
C1_Witness ==
  /\ Dispatched /\ matched.route
  /\ Len(matched.path) = 2
  /\ matched.pathAndMethod = <<router.stack[1]>>
  /\ matched.path[2] = router.stack[2]

\* C2: hasRoute is true exactly when a layer of pathAndMethodMatched has a
\* non-empty method set
C2_RouteIffMethodLayer ==
  Dispatched =>
    (matched.route <=>
       \E i \in 1..Len(matched.pathAndMethod) :
          Len(matched.pathAndMethod[i].methods) # 0)

\* only method-less layers match, one of them behind a route of another
\* method: no route
C2_Witness ==
  /\ Dispatched /\ kind = "lib" /\ ~matched.route
  /\ Len(matched.path) = 2 /\ Len(matched.pathAndMethod) = 1
  /\ matched.path[1].methods # <<>>
  /\ matched.pathAndMethod[1].methods = <<>>

\* C3: when dispatch finds a route, the path exposed as ctx._matchedRoute
\* is the path of the layer registered last among the layers that match
\* path and method
C3_LastRegisteredIsMatchedRoute ==
  (Dispatched /\ kind = "lib") =>
    LET pm == PathAndMethodIdx
    IN (\E i \in pm : router.stack[i].methods # <<>>)
         => \E i \in pm :
               /\ \A j \in pm : j <= i
               /\ ctx._matchedRoute = router.stack[i].path

\* two layers of different paths match the same path and method
C3_Witness ==
  /\ Dispatched /\ kind = "lib" /\ matched.route
  /\ PathAndMethodIdx = {1, 2}
  /\ router.stack[1].path # router.stack[2].path
  /\ ctx._matchedRoute = router.stack[2].path

\* the steps dispatch has to run: for each layer that matches path and
\* method its binding step (0, lib only) and its middleware (1, 2, ...)
ExpectedSteps ==
  UNION { {<<i, k>> : k \in (IF kind = "lib" THEN 0 ELSE 1)..Len(router.stack[i].stack)} :
          i \in PathAndMethodIdx }

\* registration order of the layers, then binding step before middleware,
\* then the middleware in their registered order
Before(e, f) == e[1] < f[1] \/ (e[1] = f[1] /\ e[2] < f[2])

\* C4: when dispatch finds a route, the steps run in exactly this order: for
\* each layer of pathAndMethodMatched in registration order its binding step,
\* then its middleware in their registered order; the outer next is invoked
\* only after the last middleware of the last layer
C4_ChainOrder ==
  (Dispatched /\ matched.route) =>
    LET steps == ExpectedSteps
    IN /\ \A j \in 1..Len(log) :
            /\ log[j] \in steps
            /\ Cardinality({e \in steps : Before(e, log[j])}) = j - 1
       /\ nextCalls > 0 => Len(log) = Cardinality(steps)

\* two layers of two middleware each ran and the outer next was invoked
C4_Witness ==
  /\ kind = "lib" /\ matched.route /\ nextCalls = 1
  /\ log = <<(<<1, 0>>), <<1, 1>>, <<1, 2>>, <<2, 0>>, <<2, 1>>, <<2, 2>>>>

\* the layers registered by use() and the routes among the layers `pm`
UseLayers(pm) == {i \in pm : router.stack[i].methods = <<>>}

Routes(pm) == {i \in pm : router.stack[i].methods # <<>>}

\* the middleware of layer r has run
Ran(r) == \E j \in 1..Len(log) : log[j] = <<r, 1>>

RanBefore(u, r) ==
  \E i, j \in 1..Len(log) : i < j /\ log[i] = <<u, 1>> /\ log[j] = <<r, 1>>

\* C5 as stated: the middleware of a matching use() layer runs before the
\* middleware of a matching route, wherever the two were registered
C5_UseAlwaysAhead ==
  (Dispatched /\ kind = "lib" /\ log # <<>>) =>
    LET pm == PathAndMethodIdx
    IN \A u \in UseLayers(pm), r \in Routes(pm) : Ran(r) => RanBefore(u, r)

\* C5 amended: the middleware of a matching use() layer runs before the
\* middleware of a matching route registered after it
C5_UseAheadOfLaterRoute ==
  (Dispatched /\ kind = "lib" /\ log # <<>>) =>
    LET pm == PathAndMethodIdx
    IN \A u \in UseLayers(pm), r \in Routes(pm) :
          (Ran(r) /\ u < r) => RanBefore(u, r)

\* a use() layer registered first and a route registered second both ran
C5_Witness ==
  /\ Dispatched /\ kind = "lib"
  /\ 1 \in UseLayers(PathAndMethodIdx) /\ 2 \in Routes(PathAndMethodIdx)
  /\ RanBefore(1, 2)

\* C6: when no route is found, dispatch invokes the outer next exactly once
\* and runs no step of any layer, not even of a method-less layer that
\* matches the path; of the context it writes ctx.matched and ctx.router and
\* leaves the matched route path and name, captures and params as they were
C6_NoRouteDeclines ==
  (Dispatched /\ kind = "lib") =>
    LET p == PathIdx
    IN (~\E i \in p : router.stack[i].methods # <<>> /\ MethodCompatible(router.stack[i]))
       => /\ pc \in {"next", "done"}
          /\ nextCalls = 1
          /\ log = <<>>
          /\ layerChain = <<>>
          /\ ctx.matched = Pick(router.stack, p)
          /\ ctx.router = "router"
          /\ ctx._matchedRoute = NoPath
          /\ ctx._matchedRouteName = Undefined
          /\ ctx.captures = <<>>
          /\ ctx.params = {}
          /\ ctx.routerName = Undefined
          /\ pc = "next" => (ctx.status \in ReqStatus /\ ctx.body = Undefined)

\* a router holding use() layers only, one of which matches the path
C6_Witness ==
  /\ pc = "next" /\ kind = "lib"
  /\ Len(router.stack) = 2
  /\ \A i \in 1..Len(router.stack) : router.stack[i].methods = <<>>
  /\ PathAndMethodIdx # {}
  /\ nextCalls = 1 /\ log = <<>>

\* a handler of the chain has run and has not called its next
ShortCircuited == layerChain # <<>> /\ Len(log) >= index

\* C7: when a handler of the composed chain does not call its next, no later
\* step of the chain runs, the outer next is not invoked and the dispatch
\* settles without an error
C7_ShortCircuit ==
  ShortCircuited =>
    /\ pc = "done"
    /\ Len(log) = index
    /\ nextCalls = 0
    /\ thrown = Undefined
    /\ ctx.Allow = Undefined

\* the first of two matched layers stopped the chain (demo.js: the handler
\* of /sex* in front of /sex/boy)
C7_Witness ==
  /\ ShortCircuited /\ pc = "done"
  /\ Len(matched.pathAndMethod) = 2
  /\ Len(log) < Len(layerChain)
  /\ \A j \in 1..Len(log) : log[j][1] = 1

\* the step in which allowedMethods acts on the response
AllowedMethodsStep == pc = "then" /\ kind = "lib" /\ pc' = "done"

\* the union of the method sets of the accumulated path-matched layers
AllowedSet == UNION {Range(ctx.matched[i].methods) : i \in 1..Len(ctx.matched)}

\* the values an Allow header listing each method of `methods` once can have
AllowHeaders(methods) ==
  {Join(seq, ", ") : seq \in {f \in [1..Cardinality(methods) -> methods] :
                                \A i, j \in 1..Cardinality(methods) :
                                   f[i] = f[j] => i = j}}

Implemented == Range(router.methods)

\* C8: not in throw mode, with the status unset or 404, a request whose
\* method is implemented, is not OPTIONS and is not among the (non-empty)
\* allowed methods gets status 405 and an Allow header of the allowed
\* methods joined by ", "
C8_MethodNotAllowed ==
  [][(/\ AllowedMethodsStep
      /\ ~options'.throw
      /\ ctx.status \in {0, 404}
      /\ ctx.method \in Implemented
      /\ ctx.method # "OPTIONS"
      /\ AllowedSet # {}
      /\ ctx.method \notin AllowedSet)
     => /\ ctx'.status = 405
        /\ ctx'.Allow \in AllowHeaders(AllowedSet)
        /\ thrown' = Undefined
        /\ ctx' = [ctx EXCEPT !.status = 405, !.Allow = ctx'.Allow]]_vars

\* PUT on a path on which GET and POST are registered
C8_Witness ==
  /\ pc = "done" /\ kind = "lib" /\ nextCalls = 1 /\ ~options.throw
  /\ ctx.method = "PUT" /\ ctx.status = 405
  /\ ctx.Allow = "GET, POST"

\* C9: with the status unset or 404, an OPTIONS request for which some
\* accumulated path-matched layer has a method gets status 200, an empty
\* body and the Allow header, in throw mode too, and no error
C9_Options ==
  [][(/\ AllowedMethodsStep
      /\ ctx.status \in {0, 404}
      /\ ctx.method = "OPTIONS"
      /\ ctx.method \in Implemented
      /\ AllowedSet # {})
     => /\ ctx'.status = 200
        /\ ctx'.body = ""
        /\ ctx'.Allow \in AllowHeaders(AllowedSet)
        /\ thrown' = Undefined
        /\ ctx' = [ctx EXCEPT !.status = 200, !.body = "", !.Allow = ctx'.Allow]]_vars

\* OPTIONS in throw mode on a path on which POST and GET are registered
C9_Witness ==
  /\ pc = "done" /\ kind = "lib" /\ nextCalls = 1 /\ options.throw
  /\ ctx.method = "OPTIONS" /\ ctx.status = 200 /\ ctx.body = ""
  /\ ctx.Allow = "POST, GET"
  /\ thrown = Undefined

\* C10 as stated: with no layer matching the path, allowedMethods leaves the
\* status as it was, whatever the method of the request
C10_UnmatchedAnyMethod ==
  [][(AllowedMethodsStep /\ ctx.matched = <<>>) => ctx'.status = ctx.status]_vars

\* C10 amended: with no layer matching the path, allowedMethods leaves the
\* status (and the whole response) as it was and throws nothing, for every
\* method of the request that the router implements
C10_UnmatchedImplementedMethod ==
  [][(AllowedMethodsStep /\ ctx.matched = <<>> /\ ctx.method \in Implemented)
     => (ctx' = ctx /\ thrown' = Undefined)]_vars

\* a GET and an OPTIONS request on a path no layer of a non-empty stack
\* matches went through allowedMethods
C10_Witness ==
  /\ pc = "done" /\ kind = "lib" /\ nextCalls = 1
  /\ router.stack # <<>> /\ ctx.matched = <<>>
  /\ ctx.method \in {"GET", "OPTIONS"}
  /\ ctx.status = 404 /\ ctx.Allow = Undefined
  /\ thrown = Undefined

\* C11: not in throw mode, with the status unset or 404, a request whose
\* method the router does not implement gets status 501 and an Allow header
\* of the allowed methods joined by ", " (so neither 405 nor the 200 of
\* OPTIONS), whatever the matched layers
C11_NotImplemented ==
  [][(/\ AllowedMethodsStep
      /\ ~options'.throw
      /\ ctx.status \in {0, 404}
      /\ ctx.method \notin Implemented)
     => /\ ctx'.status = 501
        /\ ctx'.Allow \in AllowHeaders(AllowedSet)
        /\ thrown' = Undefined
        /\ ctx' = [ctx EXCEPT !.status = 501, !.Allow = ctx'.Allow]]_vars

\* TRACE on a path on which GET and POST are registered: the 405 branch
\* would apply if the test of the implemented methods did not come first
C11_Witness ==
  /\ pc = "done" /\ kind = "lib" /\ nextCalls = 1 /\ ~options.throw
  /\ ctx.method = "TRACE" /\ ctx.status = 501
  /\ ctx.Allow = "GET, POST"
  /\ thrown = Undefined

\* C12: when the status is set and is not 404, allowedMethods changes
\* nothing of the response and produces no error, whatever the method of the
\* request, the matched layers and the options
C12_OtherStatusUntouched ==
  [][(AllowedMethodsStep /\ ctx.status \notin {0, 404})
     => (ctx' = ctx /\ thrown' = Undefined)]_vars

\* a TRACE request answered with 200 by a handler of a matched layer went
\* through allowedMethods in throw mode
C12_Witness ==
  /\ pc = "done" /\ kind = "lib" /\ nextCalls = 1 /\ options.throw
  /\ ctx.method = "TRACE" /\ ctx.status = 200
  /\ ctx.matched # <<>>
  /\ ctx.Allow = Undefined /\ thrown = Undefined

\* C13: allowedMethods, once called, calls its next and writes nothing; it
\* writes the response or throws only in the callback that runs after the
\* downstream continuation has resolved; when the downstream continuation
\* fails the callback never runs, nothing more is written and the failure is
\* the error the pipeline ends with
C13_AfterDownstream ==
  [][/\ (pc = "next" /\ kind = "lib")
          => (pc' = "downstream" /\ ctx' = ctx /\ thrown' = thrown)
     /\ (pc = "downstream" /\ thrown' = "DownstreamError")
          => (pc' = "done" /\ ctx' = ctx)
     /\ thrown = "DownstreamError"
          => (thrown' = thrown /\ ctx' = ctx /\ pc' = pc)
     /\ (kind = "lib" /\ nextCalls = 1 /\ pc # "downstream"
         /\ (ctx' # ctx \/ thrown' # thrown))
          => (pc = "then" /\ pc' = "done")]_vars

\* the downstream of allowedMethods failed on a request allowedMethods would
\* have answered with 405
C13_Witness ==
  /\ pc = "done" /\ kind = "lib" /\ nextCalls = 1
  /\ thrown = "DownstreamError"
  /\ ctx.method = "PUT" /\ ctx.status = 404 /\ ctx.Allow = Undefined
  /\ AllowedSet = {"GET"}

\* C14: in throw mode, in the 501 case and in the 405 case, the error is the
\* value the given factory returns, the default error without a factory, and
\* the status, the Allow header and the rest of the context stay as they were
C14_ThrowMode ==
  [][(/\ AllowedMethodsStep
      /\ options'.throw
      /\ ctx.status \in {0, 404})
     => /\ ctx.method \notin Implemented
            => /\ ctx' = ctx
               /\ thrown' = IF options'.notImplemented # Undefined
                            THEN options'.notImplemented
                            ELSE "NotImplementedError"
        /\ (/\ ctx.method \in Implemented
            /\ ctx.method # "OPTIONS"
            /\ AllowedSet # {}
            /\ ctx.method \notin AllowedSet)
            => /\ ctx' = ctx
               /\ thrown' = IF options'.methodNotAllowed # Undefined
                            THEN options'.methodNotAllowed
                            ELSE "MethodNotAllowedError"]_vars

\* a TRACE request in throw mode with a notImplemented factory
C14_Witness ==
  /\ pc = "done" /\ kind = "lib" /\ nextCalls = 1 /\ options.throw
  /\ ctx.method = "TRACE" /\ ctx.status = 404 /\ ctx.Allow = Undefined
  /\ ctx.matched # <<>>
  /\ thrown = "customNotImplemented"

\* ------------------------------------------- claims on the configuration
\* the configuration the last call was made in
Pre == call.pre

\* the layer objects the stack of router r referred to before the last call,
\* and those it refers to now
PreLayers(r) == Range(Pre.routers[r].stack)
Layers(r) == Range(routers[r].stack)

\* a request path of the form of a layer path: a value for each parameter
Concrete(path) ==
  [i \in 1..Len(path) |-> IF path[i] \in ParamTokens THEN "7" ELSE path[i]]

\* the params layer binds on a path it matches
ParamsOf(layer, path) == LayerParams(layer, LayerCaptures(layer, path, <<>>), {})

\* the prefix argument of the last call, without its trailing slash
GivenPrefix ==
  LET given == call.paths[1]
  IN IF given # <<>> /\ given[Len(given)] = ""
     THEN SubSeq(given, 1, Len(given) - 1) ELSE given

\* C15: route(name) returns the first layer, in stack order, whose name is
\* the given name, and false when the stack holds none; url(name, ...) for a
\* name no layer of the stack has returns an error value; neither changes
\* the routers or their layers
C15_NamedLookup ==
  LET routes == routers[call.on].stack
      named == {i \in 1..Len(routes) : heap[routes[i]].name = call.name}
  IN /\ call.op = "route" =>
          IF named = {} THEN call.ret.type = "false"
          ELSE /\ call.ret.type = "layer"
               /\ \E i \in named : /\ \A j \in named : i <= j
                                   /\ call.ret.id = routes[i]
     /\ (call.op = "url" /\ named = {}) =>
          /\ call.ret.type = "error"
          /\ call.ret.value = <<"No route found for name: ", call.name>>
     /\ call.op \in {"route", "url"} => (routers = Pre.routers /\ heap = Pre.heap)

\* url for a name never registered, on a router holding a named layer
C15_Witness ==
  /\ call.op = "url" /\ call.name = "test"
  /\ call.ret.type = "error"
  /\ \E id \in Layers("parent") : heap[id].name = "user"
  /\ routers = Pre.routers /\ heap = Pre.heap

\* C16: after router.prefix(P) every layer the stack held matches P followed
\* by the path it had, with the same params, and not that path without the
\* prefix (a layer that carries P as its last prefix already keeps its
\* path, which starts with P); a layer registered afterwards has the
\* router's prefix followed by the registered path
C16_Prefix ==
  /\ call.op = "prefix" =>
       /\ routers[call.on].opts.prefix = GivenPrefix
       /\ \A id \in PreLayers(call.on) :
            LET before == Pre.heap[id]
                after == heap[id]
                path == Concrete(before.path)
            IN IF before.prefix = GivenPrefix
               THEN after.path = before.path /\ IsPrefixOf(GivenPrefix, after.path)
               ELSE /\ after.path = GivenPrefix \o before.path
                    /\ LayerMatch(after, GivenPrefix \o path)
                    /\ ~LayerMatch(after, path)
                    /\ ParamsOf(after, GivenPrefix \o path) = ParamsOf(before, path)
  /\ (call.op = "get" /\ Pre.routers[call.on].opts.prefix # <<>>) =>
       LET P == Pre.routers[call.on].opts.prefix
           route == heap[Len(heap)]
           path == Concrete(call.paths[1])
       IN /\ route.path = P \o call.paths[1]
          /\ LayerMatch(route, P \o path)
          /\ ~LayerMatch(route, path)

\* prefix('/api/') on a router holding the layer /:id: /api/7 matches with
\* params.id = "7", /7 does not
C16_Witness ==
  /\ call.op = "prefix" /\ call.paths = <<(<<"api", "">>)>>
  /\ \E id \in PreLayers(call.on) :
       /\ Pre.heap[id].path = <<":id">>
       /\ LayerMatch(Pre.heap[id], <<"7">>)
       /\ heap[id].path = <<"api", ":id">>
       /\ LayerMatch(heap[id], <<"api", "7">>)
       /\ ParamsOf(heap[id], <<"api", "7">>) = {<<":id", <<"7">>>>}
       /\ ~LayerMatch(heap[id], <<"7">>)

Mounted == call.op = "use" /\ call.mount

\* C18 as stated: a mount leaves the child's layers and stack as they were,
\* and no call on one router changes a layer of the other
C18_MountCopies ==
  /\ Mounted =>
       /\ routers["child"].stack = Pre.routers["child"].stack
       /\ \A id \in PreLayers("child") : heap[id] = Pre.heap[id]
  /\ call.on = "parent" => \A id \in PreLayers("child") : heap[id] = Pre.heap[id]
  /\ call.on = "child" => \A id \in PreLayers("parent") : heap[id] = Pre.heap[id]

\* C19 as stated: the layers a mount with a mount path adds to the parent's
\* stack, for each mount path in turn, have the path: the parent's prefix,
\* then the mount path, then the path the layer had in the child
C19_MountedPath ==
  (Mounted /\ call.paths # <<>>) =>
    LET nested == Pre.routers["child"].stack
        was == Len(Pre.routers["parent"].stack)
        stack == routers["parent"].stack
    IN /\ Len(stack) = was + Len(call.paths) * Len(nested)
       /\ \A j \in 1..Len(call.paths), i \in 1..Len(nested) :
            heap[stack[was + (j - 1) * Len(nested) + i]].path
              = Pre.routers["parent"].opts.prefix \o call.paths[j]
                  \o Pre.heap[nested[i]].path

\* C20 as stated: after a mount every parameter name of child.params is a
\* key of parent.params, with the same validator
C20_ChildParamsOntoParent ==
  Mounted =>
    \A n \in Keys(routers["child"].params) :
      routers["parent"].params[n] = routers["child"].params[n]

\* C20 amended: a mount gives the params of the mounting router to the
\* nested router: every parameter name of parent.params is a key of
\* child.params with the same validator, and the validator is attached to
\* the child's layers with that parameter; the other entries of child.params
\* and all of parent.params stay as they were
C20_ParentParamsOntoChild ==
  Mounted =>
    /\ routers["parent"].params = Pre.routers["parent"].params
    /\ \A n \in ParamTokens :
         IF Pre.routers["parent"].params[n] # Undefined
         THEN /\ routers["child"].params[n] = Pre.routers["parent"].params[n]
              /\ \A id \in Layers("child") :
                   Contains(heap[id].paramNames, n)
                     => heap[id].validators[n] = Pre.routers["parent"].params[n]
         ELSE routers["child"].params[n] = Pre.routers["child"].params[n]

\* the parent, with a validator for :id, mounted a child that had none
C20_Witness ==
  /\ Mounted
  /\ Pre.routers["parent"].params[":id"] = "v"
  /\ Pre.routers["child"].params[":id"] = Undefined
  /\ routers["child"].params[":id"] = "v"
  /\ \E id \in Layers("child") :
       /\ Pre.heap[id].validators[":id"] = Undefined
       /\ heap[id].validators[":id"] = "v"

\* C21: whatever the call (register with one path or an array, a verb, all,
\* use, prefix, param, match, dispatch), the stack of every router before the
\* call is an initial segment of its stack after the call: layers are only
\* added at the end, none moves, none is removed; match and dispatch leave
\* every stack as it was
C21_StackGrowsAtEnd ==
  \A r \in RouterIds :
    /\ IsPrefixOf(Pre.routers[r].stack, routers[r].stack)
    /\ call.op \in {"match", "dispatch"} => routers[r].stack = Pre.routers[r].stack
    /\ call.op \in {"prefix", "param"} => routers[r].stack = Pre.routers[r].stack

\* dispatch found a route on a parent that holds the layer it mounted and,
\* behind it, the layer it registered afterwards
C21_Witness ==
  /\ call.op = "dispatch" /\ matched.route
  /\ Len(routers["parent"].stack) = 2
  /\ routers["parent"].stack[1] \in Layers("child")
  /\ routers["parent"].stack[2] \notin Layers("child")
  /\ routers["parent"].stack = Pre.routers["parent"].stack

\* C24 as stated: no layer object occurs at two positions of the stack of
\* a router
C24_StackEntriesUnique ==
  \A r \in RouterIds :
    \A i, j \in 1..Len(routers[r].stack) :
      routers[r].stack[i] = routers[r].stack[j] => i = j

\* --------------------------------------------------- claims on the serving
\* the layers the dispatch functions of the routers `rs` path-match for the
\* request of `context`, one router after the other
RECURSIVE MatchedBy(_, _, _)
MatchedBy(c, rs, context) ==
  IF rs = <<>> THEN <<>>
  ELSE MatchOn(c, Head(rs), context.path, context.method).path
       \o MatchedBy(c, Tail(rs), context)

\* C22: the dispatch functions run on a context in the order of the
\* application's chain, and after k of them ctx.matched is the concatenation,
\* in that order, of the layers each of them path-matched, whether it found a
\* route or not
C22_MatchedAccumulates ==
  \A q \in Requests :
    /\ IsPrefixOf(reqs[q].trace, app.chain)
    /\ reqs[q].ctx.matched = MatchedBy(app.conf, reqs[q].trace, reqs[q].ctx)

\* the dispatch of the parent found no route but path-matched its use()
\* layer, the dispatch of the child behind it found a route
C22_Witness ==
  \E q \in Requests :
    LET c == reqs[q].ctx
    IN /\ reqs[q].pc = "done"
       /\ reqs[q].trace = <<"parent", "child">>
       /\ ~MatchOn(app.conf, "parent", c.path, c.method).route
       /\ MatchOn(app.conf, "child", c.path, c.method).route
       /\ Len(c.matched) = 2
       /\ c.matched[1].methods = <<>>
       /\ c.matched[2].methods = <<"GET">>

\* a request served alone: the chain of one dispatch run to its end or to the
\* handler that does not call next
RECURSIVE RunChain(_, _, _, _)
RunChain(st, chain, i, callsNext) ==
  IF i > Len(chain) THEN [st EXCEPT !.next = TRUE]
  ELSE LET logged == [st EXCEPT !.log = Append(@, <<chain[i].layer.id, chain[i].k>>)]
       IN IF chain[i].k = 0
          THEN RunChain([logged EXCEPT !.ctx = Bind(chain[i].layer, @)],
                        chain, i + 1, callsNext)
          ELSE IF callsNext THEN RunChain(logged, chain, i + 1, callsNext)
          ELSE [logged EXCEPT !.next = FALSE]

\* ... through the middleware of the application from position pos on
RECURSIVE RunApp(_, _, _, _, _)
RunApp(c, chain, pos, st, callsNext) ==
  IF pos > Len(chain) THEN st
  ELSE LET d == DispatchOn(c, chain[pos], st.ctx)
           st1 == [ctx |-> d.ctx, log |-> st.log, next |-> d.next]
           st2 == IF d.next THEN st1 ELSE RunChain(st1, d.layerChain, 1, callsNext)
       IN IF st2.next THEN RunApp(c, chain, pos + 1, st2, callsNext) ELSE st2

ServedAlone(c, chain, path, method, callsNext) ==
  RunApp(c, chain, 1,
         [ctx |-> NewContext(path, method, 404), log |-> <<>>, next |-> FALSE],
         callsNext)

\* C23: while the application serves, no step of a request changes a router
\* or a layer, and a request whose steps were interleaved with those of
\* another ends with the matched layers, the matched route path, the params
\* and the order of handlers it has when it is served alone
C23_NoInterference ==
  /\ Listening => Here = app.conf
  /\ \A q \in Requests :
       reqs[q].pc = "done" =>
         LET c == reqs[q].ctx
             alone == ServedAlone(app.conf, app.chain, c.path, c.method,
                                  reqs[q].callsNext)
         IN /\ c.matched = alone.ctx.matched
            /\ c._matchedRoute = alone.ctx._matchedRoute
            /\ c.params = alone.ctx.params
            /\ reqs[q].log = alone.log

\* request 2, a POST, arrived after request 1, a GET, and was served to its
\* end by its own handlers while request 1 was suspended in its chain
C23_Witness ==
  /\ reqs[1].pc = "compose" /\ reqs[2].pc = "done"
  /\ reqs[1].ctx.method = "GET" /\ reqs[2].ctx.method = "POST"
  /\ reqs[1].log # <<>> /\ reqs[2].log # <<>>
  /\ reqs[1].ctx.router = reqs[2].ctx.router
  /\ \A i \in 1..Len(reqs[1].log), j \in 1..Len(reqs[2].log) :
       reqs[1].log[i][1] # reqs[2].log[j][1]
  /\ reqs[1].ctx.params # reqs[2].ctx.params

\* ----------------------------------------------- claims on the matched route
\* C25 as stated: when dispatch finds a route, the layer whose path it
\* exposes as ctx._matchedRoute has a non-empty method set that holds the
\* method of the request
C25_MatchedRouteIsRoute ==
  (Dispatched /\ kind = "lib" /\ matched.route) =>
    LET mostSpecificLayer == Last(matched.pathAndMethod)
    IN /\ ctx._matchedRoute = mostSpecificLayer.path
       /\ mostSpecificLayer.methods # <<>>
       /\ ctx.method \in Range(mostSpecificLayer.methods)

====
